---- MODULE Spec2Model ----
(***************************************************************************)
(* Model of bots/bf_promo_bot.py: the repost cooldown store                *)
(* (load_repost_log / can_repost / mark_reposted over a JSON file), the    *)
(* selection of posts in main() and the per-item action loop.              *)
(*                                                                         *)
(* Time is counted in whole days.  A JSON value of the cooldown file is a  *)
(* record [k, d]: k = "aware" is an ISO-8601 string with a UTC offset for  *)
(* day d, "naive" an ISO-8601 string without offset, "garbage" a string    *)
(* that is no ISO-8601 timestamp, "number" a JSON value that is no string. *)
(***************************************************************************)
EXTENDS Integers, Sequences, FiniteSets, TLC

VARIABLES
    file,          \* content of bf_promo_repost_log.json on disk
    now,           \* the wall clock (UTC), in days
    ticks,         \* how often the clock has advanced
    pc,            \* position of the process
    repost_log,    \* main's in-memory mapping uri -> timestamp
    loadedFrom,    \* history (store): the file content read by the last load_repost_log()
    loadedAt,      \* history: the clock at the last load_repost_log()
    loadedAfter,   \* history (store): pc at the moment of the last load_repost_log()
    lastMark,      \* history: uri, time and mapping of the last mark_reposted()
    runs,          \* number of runs of main() started so far
    quote_client,  \* main's quote_client is not None
    posts,         \* main's posts: the fetched author feed, sorted
    old_candidates,    \* main's old_candidates
    newest_candidate,  \* main's newest_candidate (NoItem for None)
    selected_items,    \* main's selected_items
    idx,           \* position of the per-item loop in selected_items
    calls,         \* the calls issued for the item being processed, in order
    caught,        \* a like, likers, reply or quote call of this item failed (caught)
    fileBefore,    \* history: the file content when the current item started
    held,          \* platform: number of repost records the account holds per post
    acted,         \* history: the days of the account's successful reposts per post
    markedRun,     \* history: the uris handed to mark_reposted in this run
    final_sequence \* bleuskybeauty_reposter.main's final_sequence

storeVars == <<file, now, ticks, pc, repost_log, loadedFrom, loadedAt, loadedAfter, lastMark>>
runVars == <<runs, quote_client, final_sequence, posts, old_candidates, newest_candidate, selected_items,
             idx, calls, caught, fileBefore, held, acted, markedRun>>
vars == <<storeVars, runVars>>

(***************************************************************************)
(* Program constants and bounds                                            *)
(***************************************************************************)
COOLDOWN_DAYS == 14

MaxTicks == 2
MaxFileEntries == 1
MaxRuns == 2
MaxFeed == 2

StartDay == COOLDOWN_DAYS + 6

URIs == {"at://a", "at://b", "at://c", "at://s"}

\* The keys the cooldown file may hold before the first run.
StoreKeys == {"at://a", "at://b"}

EmptyMap == [u \in {} |-> 0]

\* Timestamps a cooldown file may hold at the start: 20 days old, exactly
\* 14 days old, one day old, without offset, unparsable, not a string.
FileValues ==
    { [k |-> "aware", d |-> StartDay - 20],
      [k |-> "aware", d |-> StartDay - COOLDOWN_DAYS],
      [k |-> "aware", d |-> StartDay - 1],
      [k |-> "naive", d |-> StartDay - 1],
      [k |-> "garbage", d |-> 0],
      [k |-> "number", d |-> 0] }

Mappings(keys, values, n) ==
    UNION { [ks -> values] : ks \in { s \in SUBSET keys : Cardinality(s) <= n } }

JsonObject(m) == [kind |-> "object", data |-> m]

\* Every content the file can have: absent, not JSON, JSON but no object,
\* or a JSON object.
FileContents ==
    { [kind |-> "missing", data |-> EmptyMap],
      [kind |-> "invalid", data |-> EmptyMap],
      [kind |-> "nonobject", data |-> EmptyMap] }
    \cup { JsonObject(m) : m \in Mappings(StoreKeys, FileValues, MaxFileEntries) }

(***************************************************************************)
(* JSON helpers                                                            *)
(***************************************************************************)
\* load_json(path, default): the default when the file is missing or json.load
\* raises; otherwise whatever JSON value the file holds.
load_json(f, default) ==
    IF f.kind \in {"missing", "invalid"} THEN JsonObject(default) ELSE f

\* save_json(path, data): the file is rewritten to hold data.
save_json(data) == JsonObject(data)

(***************************************************************************)
(* datetime                                                                *)
(***************************************************************************)
\* datetime.fromisoformat(ts): TypeError for a non-string, ValueError for a
\* string that is no ISO timestamp, else a datetime (aware or naive).
fromisoformat(ts) ==
    CASE ts.k = "number"  -> [exc |-> "TypeError"]
      [] ts.k = "garbage" -> [exc |-> "ValueError"]
      [] ts.k = "aware"   -> [exc |-> "none", aware |-> TRUE, d |-> ts.d]
      [] ts.k = "naive"   -> [exc |-> "none", aware |-> FALSE, d |-> ts.d]

\* datetime.now(timezone.utc).isoformat(): an aware UTC timestamp string.
isoformat_utc(t) == [k |-> "aware", d |-> t]

\* dt >= cutoff with cutoff aware: comparing a naive datetime with an aware one
\* raises TypeError.
CompareRaises(dt) == ~dt.aware

(***************************************************************************)
(* Cooldown store                                                          *)
(***************************************************************************)
Restrict(m, ks) == [u \in ks |-> m[u]]

\* Faulty variant: the cutoff is not applied.
KeepsEntry_NoCutoff(ts, cutoff) == fromisoformat(ts).exc = "none"

\* The loop of load_repost_log over data.items(): the entries kept.
KeepsEntry(ts, cutoff) ==
    LET dt == fromisoformat(ts)
    IN  dt.exc = "none" /\ dt.d >= cutoff

\* load_repost_log(): [raised, log, file].  raised is the uncaught exception
\* ("none" when the call returns), log the mapping returned, file the file
\* content afterwards.
load_repost_log(f, t) ==
    LET data   == load_json(f, EmptyMap)
        cutoff == t - COOLDOWN_DAYS
    IN  IF data.kind # "object"
        THEN [raised |-> "AttributeError", log |-> EmptyMap, file |-> f]
        ELSE IF \E u \in DOMAIN data.data :
                    LET dt == fromisoformat(data.data[u])
                    IN  dt.exc = "none" /\ CompareRaises(dt)
        THEN [raised |-> "TypeError", log |-> EmptyMap, file |-> f]
        ELSE LET cleaned == Restrict(data.data,
                                { u \in DOMAIN data.data : KeepsEntry(data.data[u], cutoff) })
             IN  [raised |-> "none",
                  log    |-> cleaned,
                  file   |-> IF cleaned # data.data THEN save_json(cleaned) ELSE f]

can_repost(uri, log) == uri \notin DOMAIN log

\* log[uri] = now
SetEntry(log, uri, ts) ==
    [u \in DOMAIN log \cup {uri} |-> IF u = uri THEN ts ELSE log[u]]

\* Faulty variant: the file is written before the entry is set.
mark_reposted_SaveFirst(uri, log, t) ==
    [log |-> SetEntry(log, uri, isoformat_utc(t)), file |-> save_json(log)]

\* mark_reposted(uri, log): [log, file] afterwards.
mark_reposted(uri, log, t) ==
    LET marked == SetEntry(log, uri, isoformat_utc(t))
    IN  [log |-> marked, file |-> save_json(marked)]

NoMark == [uri |-> "none", at |-> 0, log |-> EmptyMap]

(***************************************************************************)
(* Posts and the author feed                                               *)
(*                                                                         *)
(* A timestamp string of a post is the sequence of the code points of its  *)
(* characters after the common prefix "2024-01-01T10:00:0": <<50, 90>> is  *)
(* "...02Z", <<50, 46, 53, 90>> is "...02.5Z".  <<>> stands for None / "". *)
(***************************************************************************)
ME_DID == "did:me"
TARGET_DID == "did:target"

\* The posts the upstream may serve: their author and timestamps.
Post(u) ==
    CASE u = "at://a" -> [author |-> TARGET_DID, createdAt |-> <<50, 90>>,         indexedAt |-> <<51, 90>>]
      [] u = "at://b" -> [author |-> TARGET_DID, createdAt |-> <<50, 46, 53, 90>>, indexedAt |-> <<51, 90>>]
      [] u = "at://c" -> [author |-> TARGET_DID, createdAt |-> <<>>,               indexedAt |-> <<48, 90>>]
      [] u = "at://s" -> [author |-> ME_DID,     createdAt |-> <<49, 90>>,         indexedAt |-> <<51, 90>>]

NoItem == [eid |-> 0, uri |-> "none", author |-> "none", createdAt |-> <<>>,
           indexedAt |-> <<>>, viewer |-> "absent"]

\* What the feed response shows as post.viewer: absent, present without a
\* repost field, or present with the uri of the account's repost record (a
\* string, or an object with a uri attribute).
ViewerModes == {"absent", "str", "obj"}

ViewerOf(u, mode, h) ==
    IF mode = "absent" THEN "absent"
    ELSE IF h[u] = 0 THEN "norepost" ELSE mode

\* The responses of get_author_feed: up to MaxFeed entries; the same post may
\* appear in more than one entry (a post and a repost of it).
Feeds == UNION { [1..n -> URIs] : n \in 0..MaxFeed }

FeedItems(feed, mode, h) ==
    [e \in 1..Len(feed) |->
        [eid |-> e, uri |-> feed[e], author |-> Post(feed[e]).author,
         createdAt |-> Post(feed[e]).createdAt, indexedAt |-> Post(feed[e]).indexedAt,
         viewer |-> ViewerOf(feed[e], mode, h)]]

\* get_post_timestamp(feed_item): created_at or indexed_at or ""
get_post_timestamp(item) ==
    IF item.createdAt # <<>> THEN item.createdAt ELSE item.indexedAt

\* Python's < on str: by code point, a proper prefix first.
RECURSIVE StrLess(_, _)
StrLess(s, t) ==
    IF s = <<>> THEN t # <<>>
    ELSE IF t = <<>> THEN FALSE
    ELSE IF s[1] # t[1] THEN s[1] < t[1]
    ELSE StrLess(Tail(s), Tail(t))

\* The key order of list.sort(key=get_post_timestamp).
KeyLess(x, y) == StrLess(get_post_timestamp(x), get_post_timestamp(y))

RECURSIVE InsertByKey(_, _)
InsertByKey(s, x) ==
    IF s = <<>> THEN <<x>>
    ELSE IF KeyLess(x, s[1]) THEN <<x>> \o s
    ELSE <<s[1]>> \o InsertByKey(Tail(s), x)

\* list.sort(key=get_post_timestamp): stable, ascending.
RECURSIVE SortByTimestamp(_)
SortByTimestamp(s) ==
    IF s = <<>> THEN <<>>
    ELSE InsertByKey(SortByTimestamp(SubSeq(s, 1, Len(s) - 1)), s[Len(s)])

(***************************************************************************)
(* main(): selection                                                       *)
(***************************************************************************)
\* Faulty variant: own posts are not filtered out.
IsOldCandidate_NoSelfCheck(item, log) == can_repost(item.uri, log)

\* The filter over older_items: no own posts, not in cooldown.
IsOldCandidate(item, log) ==
    /\ item.author # ME_DID
    /\ can_repost(item.uri, log)

OldCandidates(sorted, log) ==
    LET Test(item) == IsOldCandidate(item, log)
    IN  SelectSeq(SubSeq(sorted, 1, Len(sorted) - 1), Test)

\* newest_candidate: posts[-1] unless it is an own post.
NewestCandidate(sorted) ==
    IF sorted[Len(sorted)].author # ME_DID THEN sorted[Len(sorted)] ELSE NoItem

Min(a, b) == IF a <= b THEN a ELSE b

\* random.sample(old_candidates, k): k distinct positions, in any order.
Samples(n, k) ==
    { p \in [1..k -> 1..n] : \A i, j \in 1..k : i # j => p[i] # p[j] }

\* selected_items: the sorted sample, then the newest candidate if there is one.
SelectedItems(chosen_old, newest) ==
    chosen_old \o (IF newest # NoItem THEN <<newest>> ELSE <<>>)

(***************************************************************************)
(* main(): the run                                                         *)
(***************************************************************************)
Item == selected_items[idx]

\* is_newest = item is newest_candidate
is_newest == newest_candidate # NoItem /\ Item.eid = newest_candidate.eid

Call(op, uri) == [op |-> op, uri |-> uri]

\* The cooldown files a first run may find.
StartFiles == { f \in FileContents : DOMAIN f.data \subseteq {"at://a"} }

\* The repost records the account may hold when a run starts: at most one.
HeldStarts ==
    { h \in [URIs -> {0, 1}] : \A u, v \in URIs : h[u] = 1 /\ h[v] = 1 => u = v }

Init ==
    /\ file \in StartFiles
    /\ now = StartDay
    /\ ticks = 0
    /\ pc = "idle"
    /\ repost_log = EmptyMap
    /\ loadedFrom = [kind |-> "missing", data |-> EmptyMap]
    /\ loadedAt = 0
    /\ loadedAfter = "idle"
    /\ lastMark = NoMark
    /\ runs = 0
    /\ quote_client \in BOOLEAN
    /\ final_sequence = <<>>
    /\ posts = <<>>
    /\ old_candidates = <<>>
    /\ newest_candidate = NoItem
    /\ selected_items = <<>>
    /\ idx = 0
    /\ calls = <<>>
    /\ caught = FALSE
    /\ fileBefore = file
    /\ held = [u \in URIs |-> 0]
    /\ acted = [u \in URIs |-> <<>>]
    /\ markedRun = {}

\* A run that starts with the account holding reposts of earlier runs.
InitRun ==
    /\ file \in StartFiles
    /\ now = StartDay
    /\ ticks = 0
    /\ pc = "idle"
    /\ repost_log = EmptyMap
    /\ loadedFrom = [kind |-> "missing", data |-> EmptyMap]
    /\ loadedAt = 0
    /\ loadedAfter = "idle"
    /\ lastMark = NoMark
    /\ runs = 0
    /\ quote_client \in BOOLEAN
    /\ final_sequence = <<>>
    /\ posts = <<>>
    /\ old_candidates = <<>>
    /\ newest_candidate = NoItem
    /\ selected_items = <<>>
    /\ idx = 0
    /\ calls = <<>>
    /\ caught = FALSE
    /\ fileBefore = file
    /\ held \in HeldStarts
    /\ acted = [u \in URIs |-> <<>>]
    /\ markedRun = {}

\* The run ends before the cooldown log is loaded: the main account cannot log
\* in or the target profile cannot be fetched.
MainLoginFails ==
    /\ pc = "idle"
    /\ runs < MaxRuns
    /\ runs' = runs + 1
    /\ pc' = "done"
    /\ UNCHANGED <<file, now, ticks, repost_log, loadedFrom, loadedAt, loadedAfter, lastMark,
                   quote_client, final_sequence, posts, old_candidates, newest_candidate,
                   selected_items, idx, calls, caught, fileBefore, held, acted, markedRun>>

\* Logins succeed (the quote account is optional), then repost_log = load_repost_log().
MainLoad ==
    /\ pc = "idle"
    /\ runs < MaxRuns
    /\ runs' = runs + 1
    /\ LET r == load_repost_log(file, now)
       IN  /\ pc' = IF r.raised = "none" THEN "loaded" ELSE "crashed"
           /\ repost_log' = r.log
           /\ file' = r.file
    /\ loadedAt' = now
    /\ posts' = <<>>
    /\ old_candidates' = <<>>
    /\ newest_candidate' = NoItem
    /\ selected_items' = <<>>
    /\ idx' = 0
    /\ calls' = <<>>
    /\ caught' = FALSE
    /\ fileBefore' = file'
    /\ markedRun' = {}
    /\ UNCHANGED <<now, ticks, loadedFrom, loadedAfter, lastMark, quote_client, final_sequence, held, acted>>

\* posts = get_author_posts(...); the run ends on an empty feed; otherwise the
\* posts are sorted and split into the newest and the old candidates.
GetAuthorPosts ==
    /\ pc = "loaded"
    /\ \E feed \in Feeds, mode \in ViewerModes :
         LET sorted == SortByTimestamp(FeedItems(feed, mode, held))
         IN  IF sorted = <<>>
             THEN /\ pc' = "done"
                  /\ UNCHANGED <<posts, old_candidates, newest_candidate>>
             ELSE /\ pc' = "fetched"
                  /\ posts' = sorted
                  /\ old_candidates' = OldCandidates(sorted, repost_log)
                  /\ newest_candidate' = NewestCandidate(sorted)
    /\ UNCHANGED <<file, now, ticks, repost_log, loadedFrom, loadedAt, loadedAfter, lastMark,
                   runs, quote_client, final_sequence, selected_items, idx, calls, caught, fileBefore, held,
                   acted, markedRun>>

\* get_author_feed raises: nothing in main catches it, the run ends there.
GetAuthorPostsFails ==
    /\ pc = "loaded"
    /\ pc' = "feed_error"
    /\ UNCHANGED <<file, now, ticks, repost_log, loadedFrom, loadedAt, loadedAfter, lastMark,
                   runVars>>

\* chosen_old = sorted(random.sample(old_candidates, min(2, len))); selected_items.
SelectPosts ==
    /\ pc = "fetched"
    /\ LET n == Len(old_candidates)
           k == Min(2, n)
       IN  \E p \in Samples(n, k) :
             LET chosen_old == SortByTimestamp([j \in 1..k |-> old_candidates[p[j]]])
                 sel        == SelectedItems(chosen_old, newest_candidate)
             IN  /\ selected_items' = sel
                 /\ IF sel = <<>>
                    THEN pc' = "done" /\ idx' = 0
                    ELSE pc' = "follow" /\ idx' = 1
    /\ UNCHANGED <<file, now, ticks, repost_log, loadedFrom, loadedAt, loadedAfter, lastMark,
                   runs, quote_client, final_sequence, posts, old_candidates, newest_candidate, calls, caught,
                   fileBefore, held, acted, markedRun>>

\* The loop moves to the next item, or the run is over.
Advance ==
    /\ idx' = idx + 1
    /\ pc' = IF idx + 1 > Len(selected_items) THEN "done" ELSE "follow"

\* ensure_follow(bot_client, author.did): the first step of an item.  The follow
\* request is issued unless the profile lookup fails or the author is already
\* followed; its failure is caught.
EnsureFollow ==
    /\ pc = "follow"
    /\ \E issued \in BOOLEAN :
         calls' = IF issued THEN <<Call("follow", Item.uri)>> ELSE <<>>
    /\ caught' = FALSE
    /\ fileBefore' = file
    /\ pc' = "unrepost"
    /\ UNCHANGED <<file, now, ticks, repost_log, loadedFrom, loadedAt, loadedAfter, lastMark,
                   runs, quote_client, final_sequence, posts, old_candidates, newest_candidate,
                   selected_items, idx, held, acted, markedRun>>

\* Faulty variant: is_newest is not looked at.
NeedsUnrepost_AnyItem(item, newest) ==
    /\ item.viewer # "absent"
    /\ item.viewer # "norepost"

\* What unrepost_if_needed finds: the uri of the existing repost record, if any.
NeedsUnrepost(item, newest) ==
    /\ newest
    /\ item.viewer # "absent"
    /\ item.viewer # "norepost"

\* unrepost_if_needed(bot_client, post, is_newest)
UnrepostIfNeeded ==
    /\ pc = "unrepost"
    /\ IF NeedsUnrepost(Item, is_newest)
       THEN \E ok \in BOOLEAN :
              /\ calls' = Append(calls, Call(IF ok THEN "unrepost" ELSE "unrepost_failed", Item.uri))
              /\ held' = IF ok /\ held[Item.uri] > 0
                         THEN [held EXCEPT ![Item.uri] = @ - 1] ELSE held
       ELSE UNCHANGED <<calls, held>>
    /\ pc' = "repost"
    /\ UNCHANGED <<file, now, ticks, repost_log, loadedFrom, loadedAt, loadedAfter, lastMark,
                   runs, quote_client, final_sequence, posts, old_candidates, newest_candidate,
                   selected_items, idx, caught, fileBefore, acted, markedRun>>

\* Faulty variant: the result of repost_post is ignored.
AfterRepost_Ignored(ok) == "like"

\* Where the loop goes after repost_post returned ok.
AfterRepost(ok) == IF ok THEN "like" ELSE "next"

\* repost_post(bot_client, uri, cid): on failure the loop continues with the
\* next item.
RepostPost ==
    /\ pc = "repost"
    /\ \E ok \in BOOLEAN :
         /\ calls' = Append(calls, Call(IF ok THEN "repost" ELSE "repost_failed", Item.uri))
         /\ held' = IF ok THEN [held EXCEPT ![Item.uri] = @ + 1] ELSE held
         /\ acted' = IF ok THEN [acted EXCEPT ![Item.uri] = Append(@, now)] ELSE acted
         /\ IF AfterRepost(ok) = "like"
            THEN pc' = "like" /\ idx' = idx
            ELSE Advance
    /\ UNCHANGED <<file, now, ticks, repost_log, loadedFrom, loadedAt, loadedAfter, lastMark,
                   runs, quote_client, final_sequence, posts, old_candidates, newest_candidate,
                   selected_items, caught, fileBefore, markedRun>>

\* A call whose failure is caught and logged: the loop goes on either way.
Secondary(at, op, next) ==
    /\ pc = at
    /\ calls' = Append(calls, Call(op, Item.uri))
    /\ \E ok \in BOOLEAN : caught' = (caught \/ ~ok)
    /\ pc' = next
    /\ UNCHANGED <<file, now, ticks, repost_log, loadedFrom, loadedAt, loadedAfter, lastMark,
                   runs, quote_client, final_sequence, posts, old_candidates, newest_candidate,
                   selected_items, idx, fileBefore, held, acted, markedRun>>

\* like_post(bot_client, uri, cid)
LikePost == Secondary("like", "like", "likers")

\* follow_likers(bot_client, uri): get_likes, then a follow per eligible liker.
FollowLikers == Secondary("likers", "follow_likers", "reply")

\* reply_with_stats(bot_client, uri, cid)
ReplyWithStats == Secondary("reply", "reply", "quote")

\* quote_post(quote_client, uri, cid): nothing without a quote account.
QuotePost ==
    /\ pc = "quote"
    /\ IF quote_client
       THEN /\ calls' = Append(calls, Call("quote", Item.uri))
            /\ \E ok \in BOOLEAN : caught' = (caught \/ ~ok)
       ELSE UNCHANGED <<calls, caught>>
    /\ pc' = "mark"
    /\ UNCHANGED <<file, now, ticks, repost_log, loadedFrom, loadedAt, loadedAfter, lastMark,
                   runs, quote_client, final_sequence, posts, old_candidates, newest_candidate,
                   selected_items, idx, fileBefore, held, acted, markedRun>>

\* Whether the item goes into the cooldown log: old posts do, the newest not.
MarksItem(newest) == ~newest

\* if not is_newest: mark_reposted(uri, repost_log); then the next item.
MarkReposted ==
    /\ pc = "mark"
    /\ IF MarksItem(is_newest)
       THEN LET r == mark_reposted(Item.uri, repost_log, now)
            IN  /\ repost_log' = r.log
                /\ file' = r.file
                /\ lastMark' = [uri |-> Item.uri, at |-> now, log |-> r.log]
                /\ calls' = Append(calls, Call("mark", Item.uri))
                /\ markedRun' = markedRun \cup {Item.uri}
       ELSE UNCHANGED <<repost_log, file, lastMark, calls, markedRun>>
    /\ Advance
    /\ UNCHANGED <<now, ticks, loadedFrom, loadedAt, loadedAfter,
                   runs, quote_client, final_sequence, posts, old_candidates, newest_candidate,
                   selected_items, caught, fileBefore, held, acted>>

\* The process exits: its locals are gone, the file and the platform stay.
Exit ==
    /\ pc \in {"done", "crashed", "feed_error"}
    /\ pc' = "idle"
    /\ repost_log' = EmptyMap
    /\ loadedFrom' = [kind |-> "missing", data |-> EmptyMap]
    /\ loadedAt' = 0
    /\ loadedAfter' = "idle"
    /\ lastMark' = NoMark
    /\ posts' = <<>>
    /\ old_candidates' = <<>>
    /\ newest_candidate' = NoItem
    /\ selected_items' = <<>>
    /\ idx' = 0
    /\ calls' = <<>>
    /\ caught' = FALSE
    /\ fileBefore' = file
    /\ markedRun' = {}
    /\ UNCHANGED <<file, now, ticks, runs, quote_client, final_sequence, held, acted>>

\* The clock advances between two runs, by a day or by the length of the cooldown.
Tick ==
    /\ pc = "idle"
    /\ ticks < MaxTicks
    /\ \E d \in {1, COOLDOWN_DAYS} : now' = now + d
    /\ ticks' = ticks + 1
    /\ UNCHANGED <<file, pc, repost_log, loadedFrom, loadedAt, loadedAfter, lastMark, runVars>>

\* Midnight passes while an item is being processed (a run takes minutes: at
\* most once per run).
TickInRun ==
    /\ pc = "mark"
    /\ now = loadedAt
    /\ ticks < MaxTicks
    /\ now' = now + 1
    /\ ticks' = ticks + 1
    /\ UNCHANGED <<file, pc, repost_log, loadedFrom, loadedAt, loadedAfter, lastMark, runVars>>

RunStep ==
    \/ MainLoginFails
    \/ MainLoad
    \/ GetAuthorPosts
    \/ GetAuthorPostsFails
    \/ SelectPosts
    \/ EnsureFollow
    \/ UnrepostIfNeeded
    \/ RepostPost
    \/ LikePost
    \/ FollowLikers
    \/ ReplyWithStats
    \/ QuotePost
    \/ MarkReposted
    \/ TickInRun

\* One invocation of main().
Next == RunStep

\* One invocation after the other, the clock advancing in between.
NextRuns == RunStep \/ Exit \/ Tick

SpecRun == InitRun /\ [][Next]_vars

Spec == Init /\ [][NextRuns]_vars

(***************************************************************************)
(* The store on its own: loads and marks in any order, the clock advancing *)
(***************************************************************************)
InitStore ==
    /\ file \in FileContents
    /\ now = StartDay
    /\ ticks = 0
    /\ pc = "idle"
    /\ repost_log = EmptyMap
    /\ loadedFrom = [kind |-> "missing", data |-> EmptyMap]
    /\ loadedAt = 0
    /\ loadedAfter = "idle"
    /\ lastMark = NoMark
    /\ runs = 0
    /\ quote_client = FALSE
    /\ final_sequence = <<>>
    /\ posts = <<>>
    /\ old_candidates = <<>>
    /\ newest_candidate = NoItem
    /\ selected_items = <<>>
    /\ idx = 0
    /\ calls = <<>>
    /\ caught = FALSE
    /\ fileBefore = file
    /\ held = [u \in URIs |-> 0]
    /\ acted = [u \in URIs |-> <<>>]
    /\ markedRun = {}

\* repost_log = load_repost_log()
StoreLoad ==
    /\ pc \in {"idle", "loaded", "marked"}
    /\ LET r == load_repost_log(file, now)
       IN  /\ pc' = IF r.raised = "none" THEN "loaded" ELSE "crashed"
           /\ repost_log' = r.log
           /\ file' = r.file
    /\ loadedFrom' = file
    /\ loadedAt' = now
    /\ loadedAfter' = pc
    /\ UNCHANGED <<now, ticks, lastMark, runVars>>

\* mark_reposted(uri, repost_log) on the mapping a load returned
StoreMark ==
    /\ pc \in {"loaded", "marked"}
    /\ \E uri \in StoreKeys :
         LET r == mark_reposted(uri, repost_log, now)
         IN  /\ repost_log' = r.log
             /\ file' = r.file
             /\ lastMark' = [uri |-> uri, at |-> now, log |-> r.log]
    /\ pc' = "marked"
    /\ UNCHANGED <<now, ticks, loadedFrom, loadedAt, loadedAfter, runVars>>

\* The clock advances, by a day or by the length of the cooldown.
StoreTick ==
    /\ ticks < MaxTicks
    /\ \E d \in {1, COOLDOWN_DAYS} : now' = now + d
    /\ ticks' = ticks + 1
    /\ UNCHANGED <<file, pc, repost_log, loadedFrom, loadedAt, loadedAfter, lastMark, runVars>>

NextStore == StoreLoad \/ StoreMark \/ StoreTick

SpecStore == InitStore /\ [][NextStore]_vars

(***************************************************************************)
(* Properties of the cooldown store (SpecStore)                            *)
(***************************************************************************)
\* The mapping the file held when it was last loaded ({} when it could not be
\* read or parsed).
LoadedMapping == IF loadedFrom.kind = "object" THEN loadedFrom.data ELSE EmptyMap

InWindow(ts, t) == ts.k = "aware" /\ ts.d >= t - COOLDOWN_DAYS

\* C1: after load_repost_log() returns, the returned mapping holds exactly the
\* entries of the persisted mapping whose timestamp parses and is at least
\* now - 14 days; the file holds no older entry, and it was rewritten to the
\* pruned mapping when an entry was dropped.
C1_LoadPrunes ==
    pc = "loaded" =>
        /\ DOMAIN repost_log = { u \in DOMAIN LoadedMapping : InWindow(LoadedMapping[u], loadedAt) }
        /\ \A u \in DOMAIN repost_log : repost_log[u] = LoadedMapping[u]
        /\ \A u \in DOMAIN file.data :
             file.data[u].k \in {"aware", "naive"} => file.data[u].d >= loadedAt - COOLDOWN_DAYS
        /\ (DOMAIN repost_log # DOMAIN LoadedMapping => file = JsonObject(repost_log))

\* A load dropped an expired entry, kept another one and rewrote the file.
C1_Witness ==
    /\ pc = "loaded"
    /\ \E u, v \in DOMAIN LoadedMapping :
         /\ LoadedMapping[u].k = "aware"
         /\ LoadedMapping[u].d < loadedAt - COOLDOWN_DAYS
         /\ u \notin DOMAIN repost_log
         /\ v \in DOMAIN repost_log
         /\ u \notin DOMAIN file.data
         /\ v \in DOMAIN file.data

\* C2: load_repost_log() fails soft: whatever the file holds, it returns a
\* mapping (the empty one when the file cannot be read or parsed) and no error
\* reaches the run.
C2_LoadFailsSoft ==
    /\ pc # "crashed"
    /\ (pc = "loaded" /\ loadedFrom.kind \in {"missing", "invalid"} => repost_log = EmptyMap)

\* C3: can_repost(id, M) is true iff id is no key of M; after mark_reposted(id, M)
\* the mapping returned by the load that follows holds id (so can_repost is
\* false for it) and every other entry of M that is still inside the window.
C3_MarkRoundTrip ==
    /\ \A u \in URIs : can_repost(u, repost_log) <=> u \notin DOMAIN repost_log
    /\ (pc = "loaded" /\ loadedAfter = "marked" =>
          /\ (loadedAt - lastMark.at <= COOLDOWN_DAYS =>
                /\ lastMark.uri \in DOMAIN repost_log
                /\ ~can_repost(lastMark.uri, repost_log))
          /\ \A v \in DOMAIN lastMark.log :
                InWindow(lastMark.log[v], loadedAt) =>
                    /\ v \in DOMAIN repost_log
                    /\ repost_log[v] = lastMark.log[v])

\* A load right after a mark returns the marked id and an older entry that is
\* still inside the window.
C3_Witness ==
    /\ pc = "loaded"
    /\ loadedAfter = "marked"
    /\ lastMark.uri \in DOMAIN repost_log
    /\ \E v \in DOMAIN lastMark.log :
         /\ v # lastMark.uri
         /\ v \in DOMAIN repost_log
         /\ repost_log[v].d < lastMark.at

(***************************************************************************)
(* Properties of one run (SpecRun)                                         *)
(***************************************************************************)
Range(s) == { s[k] : k \in 1..Len(s) }

\* The selection has been made.
Selected == pc \notin {"idle", "loaded", "fetched", "crashed", "feed_error"} /\ posts # <<>>

\* The item the recorded calls belong to: the loop has already moved on when
\* the item was finished.
CallsItem ==
    IF pc \in {"follow", "done"} THEN selected_items[idx - 1] ELSE selected_items[idx]

\* C4: no selected item is authored by the acting account, so no follow,
\* retraction, repost, like or cooldown mark is issued for an own post; when
\* the newest post is an own post it is dropped and no other item is treated
\* as the newest.
C4_NoSelfAuthored ==
    /\ \A k \in 1..Len(selected_items) : selected_items[k].author # ME_DID
    /\ \A k \in 1..Len(calls) : Post(calls[k].uri).author # ME_DID
    /\ \A u \in markedRun : Post(u).author # ME_DID
    /\ (posts # <<>> /\ posts[Len(posts)].author = ME_DID =>
          /\ newest_candidate = NoItem
          /\ \A k \in 1..Len(selected_items) :
                selected_items[k].eid # posts[Len(posts)].eid
          /\ \A k \in 1..Len(calls) : calls[k].op \notin {"unrepost", "unrepost_failed"}
          /\ (Selected => Len(selected_items) = Min(2, Len(old_candidates))))

\* The newest post is an own post and was dropped; an older post was processed
\* and marked.
C4_Witness ==
    /\ pc = "done"
    /\ posts # <<>>
    /\ posts[Len(posts)].author = ME_DID
    /\ Len(selected_items) = 1
    /\ selected_items[1].uri \in markedRun

\* C5: at most min(2, eligible older items) older items are sampled, without
\* replacement, and the output list holds no post uri twice.
C5_SampleNoDuplicates ==
    Selected =>
        LET n == Len(selected_items) - (IF newest_candidate # NoItem THEN 1 ELSE 0)
        IN  /\ n <= Min(2, Len(old_candidates))
            /\ \A j, k \in 1..Len(selected_items) :
                 j # k => /\ selected_items[j].eid # selected_items[k].eid
                          /\ selected_items[j].uri # selected_items[k].uri

\* C6: the uri of the pinned item is never written to the cooldown store by
\* the run; every sampled older item whose repost succeeded is in the store,
\* with the current time, before the next item is processed, also when a like,
\* likers, reply or quote call failed.
C6_PinnedNeverMarked ==
    /\ (newest_candidate # NoItem => newest_candidate.uri \notin markedRun)
    /\ ((/\ pc \in {"follow", "done"}
          /\ idx > 1
          /\ CallsItem.eid # newest_candidate.eid
          /\ (\E k \in 1..Len(calls) : calls[k].op = "repost"))
         => (/\ calls[Len(calls)] = Call("mark", CallsItem.uri)
             /\ file = JsonObject(repost_log)
             /\ CallsItem.uri \in DOMAIN repost_log
             /\ repost_log[CallsItem.uri] = isoformat_utc(now)))

\* C7: when the repost of an item fails, nothing more is done for the item: no
\* like, likers fan-out, reply, quote or mark, the cooldown store is as it was,
\* and the loop goes on with the next item.
C7_FailedRepostSkipsItem ==
    \A k \in 1..Len(calls) :
        calls[k].op = "repost_failed" =>
            /\ k = Len(calls)
            /\ ~caught
            /\ file = fileBefore
            /\ (calls[k].uri \in markedRun => calls[k].uri \in DOMAIN fileBefore.data)
            /\ IF idx <= Len(selected_items) THEN pc = "follow" ELSE pc = "done"
            /\ idx > 1
            /\ selected_items[idx - 1].uri = calls[k].uri

\* The repost of the first item failed and the loop is at the second item.
C7_Witness ==
    /\ pc = "follow"
    /\ idx = 2
    /\ calls # <<>>
    /\ calls[Len(calls)].op = "repost_failed"

IsUnrepost(c) == c.op \in {"unrepost", "unrepost_failed"}
IsRepost(c) == c.op \in {"repost", "repost_failed"}

\* C8: when the pinned item's viewer state shows a repost, the retraction is
\* issued before the repost; no retraction is issued for a sampled older item,
\* nor when the viewer state or its repost field is absent.
C8_RetractionFirst ==
    /\ \A k \in 1..Len(calls) :
         IsUnrepost(calls[k]) =>
            /\ CallsItem.eid = newest_candidate.eid
            /\ CallsItem.viewer \in {"str", "obj"}
            /\ calls[k].uri = CallsItem.uri
            /\ \A j \in 1..Len(calls) : IsRepost(calls[j]) => k < j
    /\ \A k \in 1..Len(calls) :
         (/\ IsRepost(calls[k])
          /\ CallsItem.eid = newest_candidate.eid
          /\ CallsItem.viewer \in {"str", "obj"})
         => (\E j \in 1..(k - 1) : IsUnrepost(calls[j]))

\* The pinned item had a repost: it was retracted, then the item was reposted.
C8_Witness ==
    /\ Len(calls) >= 2
    /\ CallsItem.eid = newest_candidate.eid
    /\ \E j, k \in 1..Len(calls) : j < k /\ IsUnrepost(calls[j]) /\ calls[k].op = "repost"

\* The instant (in milliseconds after the common prefix) a timestamp string
\* denotes: the seconds digit, then an optional fraction.
Instant(ts) ==
    (ts[1] - 48) * 1000 + (IF Len(ts) = 4 THEN (ts[3] - 48) * 100 ELSE 0)

CreatedInstant(item) == Instant(get_post_timestamp(item))

\* C9: when the most recent post of a non-empty feed (by creation time, else
\* indexing time) is no own post, it is the pinned item: selected whatever the
\* cooldown store holds, and last in the output list, after the sampled older
\* items, which are ordered oldest to newest.
C9_MostRecentPinned ==
    (/\ Selected
     /\ \A x \in Range(posts) :
           (\A y \in Range(posts) : CreatedInstant(y) <= CreatedInstant(x))
           => x.author # ME_DID)
    => /\ newest_candidate # NoItem
       /\ \A y \in Range(posts) : CreatedInstant(y) <= CreatedInstant(newest_candidate)
       /\ selected_items[Len(selected_items)] = newest_candidate
       /\ \A j, k \in 1..(Len(selected_items) - 1) :
            j < k => CreatedInstant(selected_items[j]) <= CreatedInstant(selected_items[k])

(***************************************************************************)
(* Properties across runs (Spec)                                           *)
(***************************************************************************)
\* The number of successful reposts of u by the account inside the window.
ActedInWindow(u) ==
    Cardinality({ k \in 1..Len(acted[u]) : acted[u][k] >= now - COOLDOWN_DAYS })

\* C10: across runs and changes of the feed, an identifier that is in the
\* cooldown store has been reposted at most once within the retention window.
C10_ActedOncePerWindow ==
    \A u \in DOMAIN file.data : ActedInWindow(u) <= 1

(***************************************************************************)
(* A run that is terminated from outside (SpecKill)                        *)
(*                                                                         *)
(* save_json opens the file with mode "w", which truncates it, and then    *)
(* writes the JSON text: a process terminated in between leaves an empty   *)
(* or partial file, which is no JSON.                                      *)
(***************************************************************************)
\* What a save_json that did not finish leaves on disk.
InterruptedSave == [kind |-> "invalid", data |-> EmptyMap]

Running ==
    pc \in {"loaded", "fetched", "follow", "unrepost", "repost", "like", "likers",
            "reply", "quote", "mark"}

\* The process is terminated between two steps of main().
Kill ==
    /\ Running
    /\ pc' = "killed"
    /\ UNCHANGED <<file, now, ticks, repost_log, loadedFrom, loadedAt, loadedAfter, lastMark,
                   runVars>>

\* The process is terminated inside the save_json of mark_reposted: the entry
\* is set in memory, the file is truncated and not yet written.
KilledInMarkSave ==
    /\ pc = "mark"
    /\ MarksItem(is_newest)
    /\ repost_log' = SetEntry(repost_log, Item.uri, isoformat_utc(now))
    /\ file' = InterruptedSave
    /\ pc' = "killed"
    /\ UNCHANGED <<now, ticks, loadedFrom, loadedAt, loadedAfter, lastMark, runVars>>

\* The process is terminated inside the save_json of load_repost_log.
KilledInLoadSave ==
    /\ pc = "idle"
    /\ runs < MaxRuns
    /\ LET r == load_repost_log(file, now)
       IN  /\ r.raised = "none"
           /\ r.file # file
           /\ repost_log' = r.log
    /\ file' = InterruptedSave
    /\ runs' = runs + 1
    /\ loadedAt' = now
    /\ pc' = "killed"
    /\ UNCHANGED <<now, ticks, loadedFrom, loadedAfter, lastMark, quote_client, final_sequence, posts,
                   old_candidates, newest_candidate, selected_items, idx, calls, caught,
                   fileBefore, held, acted, markedRun>>

\* The next invocation starts: the locals of the terminated process are gone.
\* lastMark and markedRun keep what the terminated run had marked.
Restart ==
    /\ pc = "killed"
    /\ pc' = "idle"
    /\ repost_log' = EmptyMap
    /\ loadedAt' = 0
    /\ posts' = <<>>
    /\ old_candidates' = <<>>
    /\ newest_candidate' = NoItem
    /\ selected_items' = <<>>
    /\ idx' = 0
    /\ calls' = <<>>
    /\ caught' = FALSE
    /\ fileBefore' = file
    /\ UNCHANGED <<file, now, ticks, loadedFrom, loadedAfter, lastMark, runs, quote_client, final_sequence,
                   held, acted, markedRun>>

\* The files earlier runs leave behind: missing, or written by mark_reposted.
KillStartFiles ==
    { f \in FileContents :
        /\ f.kind \in {"missing", "object"}
        /\ \A u \in DOMAIN f.data : f.data[u].k = "aware" }

\* The mark_reposted of an earlier run that wrote the file f, if any: the
\* newest entry is the one it set.
MarkBehind(f) ==
    IF DOMAIN f.data = {} THEN NoMark
    ELSE LET u == CHOOSE v \in DOMAIN f.data :
                     \A w \in DOMAIN f.data : f.data[w].d <= f.data[v].d
         IN  [uri |-> u, at |-> f.data[u].d, log |-> f.data]

\* A run that finds the file an earlier run has written.
InitKill ==
    /\ file \in KillStartFiles
    /\ now = StartDay
    /\ ticks = 0
    /\ pc = "idle"
    /\ repost_log = EmptyMap
    /\ loadedFrom = [kind |-> "missing", data |-> EmptyMap]
    /\ loadedAt = 0
    /\ loadedAfter = "idle"
    /\ lastMark = MarkBehind(file)
    /\ runs = 0
    /\ quote_client \in BOOLEAN
    /\ final_sequence = <<>>
    /\ posts = <<>>
    /\ old_candidates = <<>>
    /\ newest_candidate = NoItem
    /\ selected_items = <<>>
    /\ idx = 0
    /\ calls = <<>>
    /\ caught = FALSE
    /\ fileBefore = file
    /\ held = [u \in URIs |-> 0]
    /\ acted = [u \in URIs |-> <<>>]
    /\ markedRun = {}

NextKill == RunStep \/ Kill \/ KilledInMarkSave \/ KilledInLoadSave \/ Restart

SpecKill == InitKill /\ [][NextKill]_vars

\* The mapping a load of the file would start from.
PersistedMapping == IF file.kind = "object" THEN file.data ELSE EmptyMap

\* C11: when a run is terminated at any point, also inside a write of the
\* cooldown file, the file afterwards holds every entry loaded at the start
\* of the run and every item marked before the termination, and no entry for
\* an item not yet processed; the load of the next run returns every item
\* marked before (and still inside the window).
C11_KillKeepsStore ==
    /\ (pc = "killed" =>
          /\ \A u \in DOMAIN repost_log \ {IF idx > 0 THEN Item.uri ELSE "none"} :
                u \in DOMAIN PersistedMapping /\ PersistedMapping[u] = repost_log[u]
          /\ DOMAIN PersistedMapping \subseteq DOMAIN repost_log)
    /\ (pc = "loaded" /\ lastMark # NoMark =>
          \A u \in DOMAIN lastMark.log :
              InWindow(lastMark.log[u], loadedAt) => u \in DOMAIN repost_log)

\* The sampled older items of this run.
SampledOlder ==
    { selected_items[k] : k \in { j \in 1..Len(selected_items) :
                                     selected_items[j].eid # newest_candidate.eid } }

\* C12: an item that was reposted as a sampled older item and marked is not
\* sampled as an older item by a later run that starts less than 14 days after
\* the mark; every sampled older item is absent from the mapping the run's
\* load_repost_log() returned.  (Stated where the selection has just been
\* made: nothing is marked yet in this run, lastMark is the mark of an earlier
\* run.)
C12_CooldownAcrossRuns ==
    (pc = "follow" /\ idx = 1) =>
        \A x \in SampledOlder :
            /\ x.uri \notin DOMAIN repost_log
            /\ ~(/\ x.uri \in DOMAIN lastMark.log
                 /\ lastMark.log[x.uri].k = "aware"
                 /\ loadedAt - lastMark.log[x.uri].d < COOLDOWN_DAYS)

\* The number of reposts of post u the account held when the item the recorded
\* calls belong to was taken up.
HeldBefore(u) ==
    held[u] + (IF Call("unrepost", u) \in Range(calls) THEN 1 ELSE 0)
            - (IF Call("repost", u) \in Range(calls) THEN 1 ELSE 0)

\* C13: when the account held a repost of the pinned item as the run took the
\* item up, it holds a repost of it once unrepost_if_needed and repost_post
\* have run, whether each of the two calls succeeded or failed.
C13_PinnedKeepsRepost ==
    (/\ calls # <<>>
     /\ CallsItem.eid = newest_candidate.eid
     /\ \E k \in 1..Len(calls) : IsRepost(calls[k])
     /\ HeldBefore(CallsItem.uri) > 0)
    => held[CallsItem.uri] > 0

(***************************************************************************)
(* bleuskybeauty_reposter.py: one run of main() (SpecReposter)             *)
(***************************************************************************)
MaxOwnPosts == 12

\* main's slices posts_sorted[-10:] and posts_sorted[:-10].
NEWEST_COUNT == 10

\* random.sample(older_pool, 10)
OLD_COUNT == 10

\* final_sequence[:20]
MAX_REPOSTS == 20

\* get_own_media_posts(max_posts=200)
max_posts == 200

OwnUris == 1..MaxOwnPosts

\* The positions of the feed where the post with another createdAt may be.
MaxOdd == 3

\* What a post of the feed looks like to main: uri and createdAt (the cid goes
\* with the uri).  The n posts of the account carry the instants 1..n; the
\* post at position odd, if any, has a createdAt of another kind: without
\* offset, no ISO timestamp, or the instant of its neighbour.
OwnPost(n, j, odd, kind) ==
    [uri |-> j,
     createdAt |->
        IF j # odd THEN [k |-> "aware", d |-> j]
        ELSE CASE kind = "naive"   -> [k |-> "naive", d |-> j]
               [] kind = "garbage" -> [k |-> "garbage", d |-> 0]
               [] kind = "tie"     -> [k |-> "aware", d |-> IF j > 1 THEN j - 1 ELSE j]]

Reverse(s) == [i \in 1..Len(s) |-> s[Len(s) + 1 - i]]

\* The lists get_own_media_posts can return: at most max_posts posts, newest
\* first as the feed pages hold them, or in the opposite order.
OwnFeeds ==
    { f \in UNION { { [j \in 1..n |-> OwnPost(n, j, odd, kind)],
                      Reverse([j \in 1..n |-> OwnPost(n, j, odd, kind)]) } :
                    n \in 0..MaxOwnPosts, odd \in 0..MaxOdd,
                    kind \in {"naive", "garbage", "tie"} } :
        Len(f) <= max_posts }

\* parse_iso(dt): datetime.fromisoformat(dt.replace("Z", "+00:00"))
parse_iso(dt) == fromisoformat(dt)

\* sorted(posts, key=parse_iso of createdAt) raises: ValueError from a key, or
\* TypeError from comparing a datetime without offset with one that has one.
SortedRaises(ps) ==
    \/ \E i \in 1..Len(ps) : parse_iso(ps[i].createdAt).exc # "none"
    \/ \E i, j \in 1..Len(ps) :
          parse_iso(ps[i].createdAt).aware /\ ~parse_iso(ps[j].createdAt).aware

RECURSIVE InsertByCreatedAt(_, _)
InsertByCreatedAt(s, x) ==
    IF s = <<>> THEN <<x>>
    ELSE IF parse_iso(x.createdAt).d < parse_iso(s[1].createdAt).d THEN <<x>> \o s
    ELSE <<s[1]>> \o InsertByCreatedAt(Tail(s), x)

\* sorted(posts, key=...): stable, ascending.
RECURSIVE SortedByCreatedAt(_)
SortedByCreatedAt(s) ==
    IF s = <<>> THEN <<>>
    ELSE InsertByCreatedAt(SortedByCreatedAt(SubSeq(s, 1, Len(s) - 1)), s[Len(s)])

\* newest_10 = posts_sorted[-10:] if len(posts_sorted) >= 10 else posts_sorted[:]
Newest10(posts_sorted) ==
    IF Len(posts_sorted) >= NEWEST_COUNT
    THEN SubSeq(posts_sorted, Len(posts_sorted) - NEWEST_COUNT + 1, Len(posts_sorted))
    ELSE posts_sorted

\* older_pool = posts_sorted[:-10] if len(posts_sorted) > 10 else []
OlderPool(posts_sorted) ==
    IF Len(posts_sorted) > NEWEST_COUNT
    THEN SubSeq(posts_sorted, 1, Len(posts_sorted) - NEWEST_COUNT)
    ELSE <<>>

\* old_random: random.sample(older_pool, 10) of a pool of more than 10, else a
\* copy of the pool; then random.shuffle.
OldRandoms(older_pool) ==
    { [i \in 1..Len(p) |-> older_pool[p[i]]] :
        p \in Samples(Len(older_pool), Min(OLD_COUNT, Len(older_pool))) }

\* final_sequence = (old_random + newest_10_sorted)[:20]
FinalSequence(old_random, newest_10) ==
    LET whole == old_random \o SortedByCreatedAt(newest_10)
    IN  SubSeq(whole, 1, Min(MAX_REPOSTS, Len(whole)))

\* The reposts the account holds when main starts: none, or one of each post.
OwnHeldStarts == { [u \in OwnUris |-> h] : h \in {0, 1} }

InitReposter ==
    /\ file = [kind |-> "missing", data |-> EmptyMap]
    /\ now = StartDay
    /\ ticks = 0
    /\ pc = "start"
    /\ repost_log = EmptyMap
    /\ loadedFrom = [kind |-> "missing", data |-> EmptyMap]
    /\ loadedAt = 0
    /\ loadedAfter = "idle"
    /\ lastMark = NoMark
    /\ runs = 0
    /\ quote_client = FALSE
    /\ final_sequence = <<>>
    /\ posts = <<>>
    /\ old_candidates = <<>>
    /\ newest_candidate = NoItem
    /\ selected_items = <<>>
    /\ idx = 0
    /\ calls = <<>>
    /\ caught = FALSE
    /\ fileBefore = [kind |-> "missing", data |-> EmptyMap]
    /\ held \in OwnHeldStarts
    /\ acted = [u \in URIs |-> <<>>]
    /\ markedRun = {}

\* What main of the reposter never touches.
promoVars == <<file, now, ticks, repost_log, loadedFrom, loadedAt, loadedAfter, lastMark,
               runs, quote_client, old_candidates, newest_candidate, selected_items,
               fileBefore, acted, markedRun>>

\* posts = client.get_own_media_posts(max_posts=200); if not posts: return
GetOwnMediaPosts ==
    /\ pc = "start"
    /\ \E f \in OwnFeeds :
         /\ posts' = f
         /\ pc' = IF f = <<>> THEN "returned" ELSE "own_fetched"
    /\ UNCHANGED <<promoVars, final_sequence, idx, calls, caught, held>>

\* login or get_own_media_posts raises: nothing catches it.
GetOwnMediaPostsFails ==
    /\ pc = "start"
    /\ pc' = "raised"
    /\ UNCHANGED <<promoVars, final_sequence, posts, idx, calls, caught, held>>

\* main from the sort to final_sequence[:20]; an exception of sorted() ends
\* the run.
BuildFinalSequence ==
    /\ pc = "own_fetched"
    /\ IF SortedRaises(posts)
       THEN /\ pc' = "raised"
            /\ UNCHANGED <<final_sequence, idx>>
       ELSE LET posts_sorted == SortedByCreatedAt(posts)
            IN  \E old_random \in OldRandoms(OlderPool(posts_sorted)) :
                  /\ final_sequence' = FinalSequence(old_random, Newest10(posts_sorted))
                  /\ idx' = 1
                  /\ pc' = "for_post"
    /\ UNCHANGED <<promoVars, posts, calls, caught, held>>

\* What ensure_fresh_repost leaves of the reposts of a post the account held
\* h of: the lookup raises, the delete raises, the create raises, all succeed.
AfterEnsureFreshRepost(h, outcome) ==
    CASE outcome = "lookup_failed" -> h
      [] outcome = "delete_failed" -> h
      [] outcome = "create_failed" -> IF h > 0 THEN h - 1 ELSE h
      [] outcome = "ok"            -> IF h > 0 THEN h ELSE h + 1

\* One turn of "for post in final_sequence": ensure_fresh_repost in a try whose
\* except continues with the next post.
EnsureFreshRepost ==
    /\ pc = "for_post"
    /\ LET post == final_sequence[idx]
       IN  /\ \E outcome \in {"lookup_failed", "delete_failed", "create_failed", "ok"} :
                /\ (outcome = "delete_failed" => held[post.uri] > 0)
                /\ held' = [held EXCEPT ![post.uri] = AfterEnsureFreshRepost(@, outcome)]
           /\ calls' = Append(calls, Call("ensure_fresh_repost", post.uri))
    /\ idx' = idx + 1
    /\ pc' = IF idx = Len(final_sequence) THEN "returned" ELSE "for_post"
    /\ UNCHANGED <<promoVars, final_sequence, posts, caught>>

NextReposter ==
    GetOwnMediaPosts \/ GetOwnMediaPostsFails \/ BuildFinalSequence \/ EnsureFreshRepost

SpecReposter == InitReposter /\ [][NextReposter]_vars

\* The newest instant among the fetched posts.
NewestInstant ==
    CHOOSE d \in { posts[i].createdAt.d : i \in 1..Len(posts) } :
        \A i \in 1..Len(posts) : posts[i].createdAt.d <= d

\* The number of fetched posts other than post that are at least as new
\* (newer = FALSE) or strictly newer (newer = TRUE).
Later(post, newer) ==
    Cardinality({ i \in 1..Len(posts) :
                    /\ posts[i].uri # post.uri
                    /\ IF newer THEN posts[i].createdAt.d > post.createdAt.d
                                ELSE posts[i].createdAt.d >= post.createdAt.d })

\* C14: for every fetched list, the repost sequence has at most 20 entries and
\* no post twice; it is at most 10 posts older than the 10 newest, then the
\* newest (up to 10) posts from oldest to newest; when a post was fetched the
\* run ends with the most recent post reposted last, every post of the
\* sequence having had its turn whatever failed before it.
C14_ReposterSequence ==
    /\ (pc \in {"for_post", "returned"} /\ posts # <<>>) =>
         LET n == Len(final_sequence)
             m == n - Min(NEWEST_COUNT, Len(posts))
         IN  /\ n <= MAX_REPOSTS
             /\ \A i, j \in 1..n : i # j => final_sequence[i].uri # final_sequence[j].uri
             /\ m >= 0 /\ m <= OLD_COUNT
             /\ \A i \in 1..m : Later(final_sequence[i], FALSE) >= NEWEST_COUNT
             /\ \A i \in (m + 1)..n : Later(final_sequence[i], TRUE) < NEWEST_COUNT
             /\ \A i, j \in (m + 1)..n :
                   i < j => final_sequence[i].createdAt.d <= final_sequence[j].createdAt.d
    /\ (pc \in {"returned", "raised"} /\ posts # <<>>) =>
         /\ Len(calls) = Len(final_sequence)
         /\ calls # <<>>
         /\ \A k \in 1..Len(calls) : calls[k].uri = final_sequence[k].uri
         /\ final_sequence[Len(final_sequence)].createdAt.d = NewestInstant

====
